---- MODULE Spec2Model ----
(***************************************************************************)
(* The popup controller of the contact-entry extension                     *)
(* (src/extension/popup.js): the record collection kept under the key      *)
(* 'entries' of chrome.storage.local, the asynchronous get/set requests    *)
(* and their callbacks, the two views, the rendered entry list, the count  *)
(* indicator, the status line with its expiry timers, and the two export   *)
(* paths.                                                                  *)
(*                                                                         *)
(* chrome.storage.local is modelled as the browser serves it: requests are *)
(* applied to the store in the order they were issued (reqs), each answer  *)
(* travels back to the popup and its callback runs later, in the same      *)
(* order (cbs).  User events, storage steps and timers interleave freely.  *)
(***************************************************************************)
EXTENDS Integers, Sequences, FiniteSets, TLC

VARIABLES
    phase,              \* "loading" | "ready" | "aborted": the DOMContentLoaded handler
    dom,                \* ids of the elements the popup document provides
    store,              \* chrome.storage.local 'entries': <<>> never written, <<seq>> written
    formDisplay,        \* form.style.display
    entriesViewDisplay, \* entriesView.style.display
    formValues,         \* values of the four inputs of the form
    now,                \* the clock read by new Date() at the last submit
    reqs,               \* storage requests issued and not yet applied (FIFO)
    cbs,                \* storage answers not yet delivered to their callbacks (FIFO)
    entriesList,        \* innerHTML of #entriesList: [html, items]
    entryCount,         \* textContent of #entryCount
    statusText,         \* textContent of #status
    statusClass,        \* className of #status
    timers,             \* pending setTimeout callbacks of showStatus (equal delay: FIFO)
    files,              \* file artifacts produced: [download, anchor] counts
    ops,                \* history: clicks and submits of the user so far
    declines,           \* history: confirm() dialogs the user declined
    acks,               \* history: acknowledged writes per kind
    raced,              \* history: a submit read the store while another submit was unwritten
    store0,             \* history: the store when the popup opened
    csvContent,         \* the text generateCSV returned last: <<>> none yet, <<text>>
    built,              \* history: the entries the submit handler built, in order
    closedIn,           \* history: the view showing when the popup was last closed
    renders             \* history: runs of displayEntries' callback since the popup opened

vars == <<phase, dom, store, formDisplay, entriesViewDisplay, formValues, now,
          reqs, cbs, entriesList, entryCount, statusText, statusClass, timers,
          files, ops, declines, acks, raced, store0, csvContent, built, closedIn,
          renders>>

\* ------------------------------------------------------------------ bounds
MaxOps == 3
MaxPending == 2
MaxFieldLen == 1
MaxRecords == 2

\* ------------------------------------------------------------------ data
\* Text is a sequence of characters.
Acme == <<"A">>
AcmeInc == <<"A", ",", "I">>
Eng == <<"E">>
Mail == <<"a">>
Link == <<"l">>
Empty == <<>>

\* Mutant of Fields: the first two columns change places.
Fields_Swapped == <<"employer_role", "employer_name", "email_id", "job_link">>

\* The columns of the CSV file, which are also the ids of the form's inputs.
Fields == <<"employer_name", "employer_role", "email_id", "job_link">>

\* The characters the codec treats specially.
Quote == "\""
Comma == ","
Newline == "\n"

\* The name of a column as text.
Chars(header) ==
    CASE header = "employer_name" -> <<"e", "m", "p", "l", "o", "y", "e", "r", "_", "n", "a", "m", "e">>
      [] header = "employer_role" -> <<"e", "m", "p", "l", "o", "y", "e", "r", "_", "r", "o", "l", "e">>
      [] header = "email_id" -> <<"e", "m", "a", "i", "l", "_", "i", "d">>
      [] header = "job_link" -> <<"j", "o", "b", "_", "l", "i", "n", "k">>

BlankForm ==
    [employer_name |-> Empty, employer_role |-> Empty, email_id |-> Empty, job_link |-> Empty]

\* What the user types into the form.
FormInputs ==
    { [employer_name |-> AcmeInc, employer_role |-> Eng, email_id |-> Mail, job_link |-> Empty] }

Entry(f, t) ==
    [employer_name |-> f.employer_name, employer_role |-> f.employer_role,
     email_id |-> f.email_id, job_link |-> f.job_link, timestamp |-> t]

\* A record left by an earlier session of the popup.
OldEntry ==
    Entry([employer_name |-> Acme, employer_role |-> Eng, email_id |-> Mail, job_link |-> Link], 0)

\* A record of an earlier session that has no job_link.
PartialEntry ==
    [employer_name |-> Acme, employer_role |-> Eng, email_id |-> Mail, timestamp |-> 0]

\* entry[header] || '', entry[id] || ''
ValueOf(entry, header) == IF header \in DOMAIN entry THEN entry[header] ELSE Empty

\* result.entries || []
OrEmpty(result) == IF result = <<>> THEN <<>> ELSE result[1]

Some(x) == <<x>>

\* entries.filter((_, i) => i !== index), index counted from 0
FilterOut(entries, index) ==
    [k \in 1..(Len(entries) - (IF index < Len(entries) THEN 1 ELSE 0)) |->
        IF k <= index THEN entries[k] ELSE entries[k + 1]]

\* ------------------------------------------------------------------ DOM
Required == {"jobForm", "entriesView", "viewEntries", "backToForm"}
Buttons == {"downloadCSV", "exportToFile", "clearData"}
AllIds == Required \cup Buttons \cup {"entryCount", "entriesList", "status"}

\* The documents the popup is opened on: the complete one, one without the
\* count indicator, and one per missing required element.  Every document
\* provides #status, #entriesList and the four inputs of the form.
DomConfigs ==
    {AllIds, AllIds \ {"entryCount"}} \cup {AllIds \ {r} : r \in Required}

\* What an earlier session left under the key: nothing ever written, or one record.
InitStores == {<<>>, Some(<<OldEntry>>)}

StatusIdle == <<"status">>
StatusOf(type) == <<"status", type>>
CountLabel(n) == <<n, " entries stored">>

Init ==
    /\ phase = "loading"
    /\ dom \in DomConfigs
    /\ store \in InitStores
    /\ formDisplay = ""
    /\ entriesViewDisplay = ""
    /\ formValues = BlankForm
    /\ now = 0
    /\ reqs = <<>>
    /\ cbs = <<>>
    /\ entriesList = [html |-> "initial", items |-> <<>>]
    /\ entryCount = <<>>
    /\ statusText = ""
    /\ statusClass = StatusIdle
    /\ timers = 0
    /\ files = [download |-> 0, anchor |-> 0]
    /\ ops = 0
    /\ declines = 0
    /\ acks = [submit |-> 0, delete |-> 0, clear |-> 0]
    /\ raced = FALSE
    /\ store0 = store
    /\ csvContent = <<>>
    /\ built = <<>>
    /\ closedIn = "none"
    /\ renders = 0

\* ------------------------------------------------------------------ storage requests
\* A request or an answer: op and value are the call, cont names the callback
\* and entry/index are what its closure holds.  base and interfered are
\* history: the store when the user triggered the mutation, and whether
\* another mutation was in flight at any moment since.
Req(op, value, cont, entry, index, base, interfered) ==
    [op |-> op, value |-> value, cont |-> cont, entry |-> entry, index |-> index,
     base |-> base, interfered |-> interfered]

GetReq(cont) == Req("get", <<>>, cont, <<>>, 0, <<>>, FALSE)

Mutating(r) == r.cont \in {"submitGet", "submitSet", "deleteSet", "clearSet"}

InFlight(q) == \E k \in 1..Len(q) : Mutating(q[k])

MutationInFlight == InFlight(reqs) \/ InFlight(cbs)

Mark(q) ==
    [k \in 1..Len(q) |-> IF Mutating(q[k]) THEN [q[k] EXCEPT !.interfered = TRUE] ELSE q[k]]

Pending == Len(reqs) + Len(cbs)

Quiescent == reqs = <<>> /\ cbs = <<>>

\* ------------------------------------------------------------------ utility functions
\* Mutant of ShowStatus: the message is displayed and no expiry timer started.
ShowStatus_NoTimer(message, type) ==
    IF "status" \notin dom
    THEN UNCHANGED <<statusText, statusClass, timers>>
    ELSE /\ statusText' = message
         /\ statusClass' = StatusOf(type)
         /\ timers' = timers

\* showStatus(message, type)
ShowStatus(message, type) ==
    IF "status" \notin dom
    THEN UNCHANGED <<statusText, statusClass, timers>>
    ELSE /\ statusText' = message
         /\ statusClass' = StatusOf(type)
         /\ timers' = timers + 1

\* The callback showStatus handed to setTimeout.
TimerFire ==
    /\ timers > 0
    /\ timers' = timers - 1
    /\ statusText' = ""
    /\ statusClass' = StatusIdle
    /\ UNCHANGED <<renders, csvContent, built, closedIn,
                   phase, dom, store, formDisplay, entriesViewDisplay, formValues, now,
                   reqs, cbs, entriesList, entryCount, files, ops, declines, acks,
                   raced, store0>>

\* Mutant of FillForm: a value the entry does not have is put into the
\* input as it is read, the text "undefined".
FillForm_Undefined(entry) ==
    [id \in {Fields[k] : k \in 1..Len(Fields)} |->
        IF id \in DOMAIN entry THEN entry[id] ELSE <<"u", "n", "d", "e", "f">>]

\* fillForm(entry): every input exists in the form, entry[id] || ''
FillForm(entry) ==
    [employer_name |-> ValueOf(entry, "employer_name"),
     employer_role |-> ValueOf(entry, "employer_role"),
     email_id |-> ValueOf(entry, "email_id"), job_link |-> ValueOf(entry, "job_link")]

\* The requests displayEntries() issues.
DisplayEntries == IF "entriesList" \in dom THEN <<GetReq("display")>> ELSE <<>>

\* The requests loadStoredEntries() issues.
LoadStoredEntries == IF "entryCount" \in dom THEN <<GetReq("count")>> ELSE <<>>

\* ------------------------------------------------------------------ initialization
\* Mutant of DOMContentLoaded: only the form and the entries view are
\* required, the two buttons are not looked at.
DOMContentLoaded_ButtonsUnchecked ==
    /\ phase = "loading"
    /\ IF ~({"jobForm", "entriesView"} \subseteq dom)
       THEN /\ phase' = "aborted"
            /\ UNCHANGED <<formDisplay, entriesViewDisplay, reqs>>
       ELSE /\ phase' = "ready"
            /\ entriesViewDisplay' = "none"
            /\ formDisplay' = "block"
            /\ reqs' = reqs \o LoadStoredEntries
    /\ UNCHANGED <<renders, csvContent, built, closedIn,
                   dom, store, formValues, now, cbs, entriesList, entryCount, statusText,
                   statusClass, timers, files, ops, declines, acks, raced, store0>>

\* Mutant of DOMContentLoaded: the views are left as the document has them.
DOMContentLoaded_KeepsView ==
    /\ phase = "loading"
    /\ IF ~(Required \subseteq dom)
       THEN /\ phase' = "aborted"
            /\ UNCHANGED reqs
       ELSE /\ phase' = "ready"
            /\ reqs' = reqs \o LoadStoredEntries
    /\ UNCHANGED <<renders, csvContent, built, closedIn, formDisplay, entriesViewDisplay,
                   dom, store, formValues, now, cbs, entriesList, entryCount, statusText,
                   statusClass, timers, files, ops, declines, acks, raced, store0>>

DOMContentLoaded ==
    /\ phase = "loading"
    /\ IF ~(Required \subseteq dom)
       THEN /\ phase' = "aborted"
            /\ UNCHANGED <<formDisplay, entriesViewDisplay, reqs>>
       ELSE /\ phase' = "ready"
            /\ entriesViewDisplay' = "none"
            /\ formDisplay' = "block"
            /\ reqs' = reqs \o LoadStoredEntries
    /\ UNCHANGED <<renders, csvContent, built, closedIn,
                   dom, store, formValues, now, cbs, entriesList, entryCount, statusText,
                   statusClass, timers, files, ops, declines, acks, raced, store0>>

\* ------------------------------------------------------------------ the browser
\* A submit whose write is not applied yet: its read is unanswered or
\* undelivered, or its write is still queued.
Unwritten(rq, cq) ==
    \/ \E k \in 1..Len(rq) : rq[k].cont \in {"submitGet", "submitSet"}
    \/ \E k \in 1..Len(cq) : cq[k].cont = "submitGet"

\* chrome.storage.local applies the oldest request: a set replaces the
\* collection, a get reads it; the answer is queued for the popup.
StorageApply ==
    /\ reqs # <<>>
    /\ LET r == Head(reqs) IN
        /\ store' = IF r.op = "set" THEN r.value ELSE store
        /\ cbs' = Append(cbs, IF r.op = "get" THEN [r EXCEPT !.value = store] ELSE r)
        /\ raced' = (raced \/ (r.cont = "submitGet" /\ Unwritten(Tail(reqs), cbs)))
    /\ reqs' = Tail(reqs)
    /\ UNCHANGED <<renders, csvContent, built, closedIn,
                   phase, dom, formDisplay, entriesViewDisplay, formValues, now,
                   entriesList, entryCount, statusText, statusClass, timers, files, ops,
                   declines, acks, store0>>

\* ------------------------------------------------------------------ view toggles
\* viewEntriesBtn click
ViewEntriesClick ==
    /\ phase = "ready"
    /\ ops < MaxOps
    /\ Pending < MaxPending
    /\ ops' = ops + 1
    /\ formDisplay' = "none"
    /\ entriesViewDisplay' = "block"
    /\ reqs' = reqs \o DisplayEntries
    /\ UNCHANGED <<renders, csvContent, built, closedIn,
                   phase, dom, store, formValues, now, cbs, entriesList, entryCount,
                   statusText, statusClass, timers, files, declines, acks, raced,
                   store0>>

\* backToFormBtn click
BackToFormClick ==
    /\ phase = "ready"
    /\ ops < MaxOps
    /\ ops' = ops + 1
    /\ formDisplay' = "block"
    /\ entriesViewDisplay' = "none"
    /\ UNCHANGED <<renders, csvContent, built, closedIn,
                   phase, dom, store, formValues, now, reqs, cbs, entriesList, entryCount,
                   statusText, statusClass, timers, files, declines, acks, raced,
                   store0>>

\* ------------------------------------------------------------------ the entry list
\* The rows of the list can be clicked while the entries view is shown.
RowClickable(i) ==
    /\ phase = "ready"
    /\ entriesViewDisplay = "block"
    /\ entriesList.html = "items"
    /\ i \in 0..(Len(entriesList.items) - 1)

\* Mutant of DisplayCb: the rows are appended to the list as it is, which is
\* not emptied first.
DisplayCb_NoClear ==
    /\ cbs # <<>>
    /\ Head(cbs).cont = "display"
    /\ LET entries == OrEmpty(Head(cbs).value) IN
        entriesList' = IF Len(entries) = 0
                       THEN [html |-> "no-entries", items |-> <<>>]
                       ELSE [html |-> "items", items |-> entriesList.items \o entries]
    /\ cbs' = Tail(cbs)
    /\ renders' = renders + 1
    /\ UNCHANGED <<csvContent, built, closedIn,
                   phase, dom, store, formDisplay, entriesViewDisplay, formValues, now,
                   reqs, entryCount, statusText, statusClass, timers, files, ops,
                   declines, acks, raced, store0>>

\* The callback of displayEntries' get: a full re-render.  Every row keeps
\* the entries array of this read, its entry and its index.
DisplayCb ==
    /\ cbs # <<>>
    /\ Head(cbs).cont = "display"
    /\ LET entries == OrEmpty(Head(cbs).value) IN
        entriesList' = IF Len(entries) = 0
                       THEN [html |-> "no-entries", items |-> <<>>]
                       ELSE [html |-> "items", items |-> entries]
    /\ cbs' = Tail(cbs)
    /\ renders' = renders + 1
    /\ UNCHANGED <<csvContent, built, closedIn,
                   phase, dom, store, formDisplay, entriesViewDisplay, formValues, now,
                   reqs, entryCount, statusText, statusClass, timers, files, ops,
                   declines, acks, raced, store0>>

\* Mutant of EditClick: the form is shown and the entries view not hidden.
EditClick_KeepsList(i) ==
    /\ RowClickable(i)
    /\ ops < MaxOps
    /\ ops' = ops + 1
    /\ formValues' = FillForm(entriesList.items[i + 1])
    /\ formDisplay' = "block"
    /\ UNCHANGED <<renders, csvContent, built, closedIn,
                   phase, dom, store, now, reqs, cbs, entriesList, entryCount, statusText,
                   statusClass, timers, files, declines, acks, raced, store0,
                   entriesViewDisplay>>

\* Mutant of EditClick: the record moves into the form, a write takes it
\* out of the collection.
EditClick_TakesRecord(i) ==
    /\ RowClickable(i)
    /\ ops < MaxOps
    /\ ops' = ops + 1
    /\ formValues' = FillForm(entriesList.items[i + 1])
    /\ formDisplay' = "block"
    /\ entriesViewDisplay' = "none"
    /\ reqs' = Append(reqs, Req("set", Some(FilterOut(entriesList.items, i)), "editSet",
                                <<>>, i, store, FALSE))
    /\ UNCHANGED <<renders, csvContent, built, closedIn,
                   phase, dom, store, now, cbs, entriesList, entryCount, statusText,
                   statusClass, timers, files, declines, acks, raced, store0>>

\* editBtn click of row i
EditClick(i) ==
    /\ RowClickable(i)
    /\ ops < MaxOps
    /\ ops' = ops + 1
    /\ formValues' = FillForm(entriesList.items[i + 1])
    /\ formDisplay' = "block"
    /\ entriesViewDisplay' = "none"
    /\ UNCHANGED <<renders, csvContent, built, closedIn,
                   phase, dom, store, now, reqs, cbs, entriesList, entryCount, statusText,
                   statusClass, timers, files, declines, acks, raced, store0>>

\* deleteBtn click of row i, confirm() answered yes
DeleteConfirmed(i) ==
    /\ RowClickable(i)
    /\ ops < MaxOps
    /\ Pending < MaxPending
    /\ ops' = ops + 1
    /\ LET updatedEntries == FilterOut(entriesList.items, i) IN
        reqs' = Append(Mark(reqs),
                       Req("set", Some(updatedEntries), "deleteSet", <<>>, i, store,
                           MutationInFlight))
    /\ cbs' = Mark(cbs)
    /\ UNCHANGED <<renders, csvContent, built, closedIn,
                   phase, dom, store, formDisplay, entriesViewDisplay, formValues, now,
                   entriesList, entryCount, statusText, statusClass, timers, files,
                   declines, acks, raced, store0>>

\* deleteBtn click of row i, confirm() answered no
DeleteDeclined(i) ==
    /\ RowClickable(i)
    /\ ops < MaxOps
    /\ ops' = ops + 1
    /\ declines' = declines + 1
    /\ UNCHANGED <<renders, csvContent, built, closedIn,
                   phase, dom, store, formDisplay, entriesViewDisplay, formValues, now,
                   reqs, cbs, entriesList, entryCount, statusText, statusClass, timers,
                   files, acks, raced, store0>>

\* The callback of the delete's set.
DeleteSetCb ==
    /\ cbs # <<>>
    /\ Head(cbs).cont = "deleteSet"
    /\ cbs' = Tail(cbs)
    /\ reqs' = reqs \o DisplayEntries \o LoadStoredEntries
    /\ ShowStatus("Entry deleted successfully!", "success")
    /\ acks' = [acks EXCEPT !.delete = @ + 1]
    /\ UNCHANGED <<renders, csvContent, built, closedIn,
                   phase, dom, store, formDisplay, entriesViewDisplay, formValues, now,
                   entriesList, entryCount, files, ops, declines, raced, store0>>

\* ------------------------------------------------------------------ the count indicator
\* The callback of loadStoredEntries' get.
CountCb ==
    /\ cbs # <<>>
    /\ Head(cbs).cont = "count"
    /\ entryCount' = CountLabel(Len(OrEmpty(Head(cbs).value)))
    /\ cbs' = Tail(cbs)
    /\ UNCHANGED <<renders, csvContent, built, closedIn,
                   phase, dom, store, formDisplay, entriesViewDisplay, formValues, now,
                   reqs, entriesList, statusText, statusClass, timers, files, ops,
                   declines, acks, raced, store0>>

\* ------------------------------------------------------------------ form submission
\* form submit event: the user has left the form as it was or typed f into
\* it, and the clock has reached t.  The clock advances between two
\* submissions of the user, so t is later than the last timestamp given.
SubmitForm(f, t) ==
    /\ phase = "ready"
    /\ formDisplay = "block"
    /\ ops < MaxOps
    /\ Pending < MaxPending
    /\ ops' = ops + 1
    /\ formValues' = f
    /\ now' = t
    /\ LET entry == Entry(f, t) IN
        /\ built' = Append(built, entry)
        /\ reqs' = Append(Mark(reqs),
                          Req("get", <<>>, "submitGet", Some(entry), 0, store,
                              MutationInFlight))
    /\ cbs' = Mark(cbs)
    /\ UNCHANGED <<renders, csvContent, closedIn,
                   phase, dom, store, formDisplay, entriesViewDisplay,
                   entriesList, entryCount, statusText, statusClass, timers, files,
                   declines, acks, raced, store0>>

Submit == \E f \in FormInputs \cup {formValues}, t \in {now + 1} : SubmitForm(f, t)

\* Mutant of SubmitGetCb: entries.unshift(entry), the record goes first.
SubmitGetCb_Unshift ==
    /\ cbs # <<>>
    /\ Head(cbs).cont = "submitGet"
    /\ LET r == Head(cbs)
           entries == <<r.entry[1]>> \o OrEmpty(r.value)
       IN  reqs' = Append(reqs, [r EXCEPT !.op = "set", !.value = Some(entries),
                                          !.cont = "submitSet"])
    /\ cbs' = Tail(cbs)
    /\ UNCHANGED <<renders, csvContent, built, closedIn,
                   phase, dom, store, formDisplay, entriesViewDisplay, formValues, now,
                   entriesList, entryCount, statusText, statusClass, timers, files, ops,
                   declines, acks, raced, store0>>

\* Mutant of SubmitGetCb: the record is pushed onto a fresh array, not onto
\* the entries that were read.
SubmitGetCb_Fresh ==
    /\ cbs # <<>>
    /\ Head(cbs).cont = "submitGet"
    /\ LET r == Head(cbs)
           entries == <<r.entry[1]>>
       IN  reqs' = Append(reqs, [r EXCEPT !.op = "set", !.value = Some(entries),
                                          !.cont = "submitSet"])
    /\ cbs' = Tail(cbs)
    /\ UNCHANGED <<renders, csvContent, built, closedIn,
                   phase, dom, store, formDisplay, entriesViewDisplay, formValues, now,
                   entriesList, entryCount, statusText, statusClass, timers, files, ops,
                   declines, acks, raced, store0>>

\* Mutant of SubmitGetCb: the record is stamped again when the read has
\* answered, one tick after the submit.
SubmitGetCb_Restamp ==
    /\ cbs # <<>>
    /\ Head(cbs).cont = "submitGet"
    /\ LET r == Head(cbs)
           entries == Append(OrEmpty(r.value),
                             [r.entry[1] EXCEPT !.timestamp = @ + 1])
       IN  reqs' = Append(reqs, [r EXCEPT !.op = "set", !.value = Some(entries),
                                          !.cont = "submitSet"])
    /\ cbs' = Tail(cbs)
    /\ UNCHANGED <<renders, csvContent, built, closedIn,
                   phase, dom, store, formDisplay, entriesViewDisplay, formValues, now,
                   entriesList, entryCount, statusText, statusClass, timers, files, ops,
                   declines, acks, raced, store0>>

\* Mutant of SubmitGetCb: a stored record with the four values of the form
\* is updated in place, the record is appended only when there is none.
SubmitGetCb_Update ==
    /\ cbs # <<>>
    /\ Head(cbs).cont = "submitGet"
    /\ LET r == Head(cbs)
           old == OrEmpty(r.value)
           same(k) == FillForm(old[k]) = FillForm(r.entry[1])
           entries == IF \E k \in 1..Len(old) : same(k)
                      THEN [k \in 1..Len(old) |-> IF same(k) THEN r.entry[1] ELSE old[k]]
                      ELSE Append(old, r.entry[1])
       IN  reqs' = Append(reqs, [r EXCEPT !.op = "set", !.value = Some(entries),
                                          !.cont = "submitSet"])
    /\ cbs' = Tail(cbs)
    /\ UNCHANGED <<renders, csvContent, built, closedIn,
                   phase, dom, store, formDisplay, entriesViewDisplay, formValues, now,
                   entriesList, entryCount, statusText, statusClass, timers, files, ops,
                   declines, acks, raced, store0>>

\* Mutant of SubmitGetCb: success is reported, the form reset and the count
\* refreshed as soon as the write is issued, not in its callback.
SubmitGetCb_Optimistic ==
    /\ cbs # <<>>
    /\ Head(cbs).cont = "submitGet"
    /\ LET r == Head(cbs)
           entries == Append(OrEmpty(r.value), r.entry[1])
       IN  reqs' = Append(reqs, [r EXCEPT !.op = "set", !.value = Some(entries),
                                          !.cont = "submitSet"]) \o LoadStoredEntries
    /\ cbs' = Tail(cbs)
    /\ ShowStatus("Entry saved successfully!", "success")
    /\ formValues' = BlankForm
    /\ UNCHANGED <<renders, csvContent, built, closedIn,
                   phase, dom, store, formDisplay, entriesViewDisplay, now,
                   entriesList, entryCount, files, ops,
                   declines, acks, raced, store0>>

\* The callback of the submit's get: entries.push(entry), then set.
SubmitGetCb ==
    /\ cbs # <<>>
    /\ Head(cbs).cont = "submitGet"
    /\ LET r == Head(cbs)
           entries == Append(OrEmpty(r.value), r.entry[1])
       IN  reqs' = Append(reqs, [r EXCEPT !.op = "set", !.value = Some(entries),
                                          !.cont = "submitSet"])
    /\ cbs' = Tail(cbs)
    /\ UNCHANGED <<renders, csvContent, built, closedIn,
                   phase, dom, store, formDisplay, entriesViewDisplay, formValues, now,
                   entriesList, entryCount, statusText, statusClass, timers, files, ops,
                   declines, acks, raced, store0>>

\* Mutant of SubmitSetCb: the count indicator is not refreshed.
SubmitSetCb_NoRefresh ==
    /\ cbs # <<>>
    /\ Head(cbs).cont = "submitSet"
    /\ cbs' = Tail(cbs)
    /\ ShowStatus("Entry saved successfully!", "success")
    /\ formValues' = BlankForm
    /\ acks' = [acks EXCEPT !.submit = @ + 1]
    /\ UNCHANGED <<renders, csvContent, built, closedIn,
                   phase, dom, store, formDisplay, entriesViewDisplay, now, entriesList,
                   entryCount, files, ops, declines, raced, store0, reqs>>

\* The callback of the submit's set.
SubmitSetCb ==
    /\ cbs # <<>>
    /\ Head(cbs).cont = "submitSet"
    /\ cbs' = Tail(cbs)
    /\ ShowStatus("Entry saved successfully!", "success")
    /\ formValues' = BlankForm
    /\ reqs' = reqs \o LoadStoredEntries
    /\ acks' = [acks EXCEPT !.submit = @ + 1]
    /\ UNCHANGED <<renders, csvContent, built, closedIn,
                   phase, dom, store, formDisplay, entriesViewDisplay, now, entriesList,
                   entryCount, files, ops, declines, raced, store0>>

\* ------------------------------------------------------------------ CSV codec
\* array.join(sep) on texts
RECURSIVE Join(_, _)
Join(texts, sep) ==
    IF Len(texts) = 0 THEN <<>>
    ELSE IF Len(texts) = 1 THEN texts[1]
    ELSE texts[1] \o <<sep>> \o Join(Tail(texts), sep)

\* value.includes(c)
Includes(value, c) == \E k \in 1..Len(value) : value[k] = c

\* value.replace(/"/g, '""')
RECURSIVE EscapeQuotes(_)
EscapeQuotes(value) ==
    IF value = <<>> THEN <<>>
    ELSE (IF Head(value) = Quote THEN <<Quote, Quote>> ELSE <<Head(value)>>)
         \o EscapeQuotes(Tail(value))

\* Mutant of CsvField: the field is wrapped, its quotes are not doubled.
CsvField_NoDoubling(entry, header) ==
    LET value == ValueOf(entry, header)
    IN  IF Includes(value, Quote) \/ Includes(value, Comma) \/ Includes(value, Newline)
        THEN <<Quote>> \o value \o <<Quote>>
        ELSE value

\* The cell of one column of one entry.
CsvField(entry, header) ==
    LET value == ValueOf(entry, header)
    IN  IF Includes(value, Quote) \/ Includes(value, Comma) \/ Includes(value, Newline)
        THEN <<Quote>> \o EscapeQuotes(value) \o <<Quote>>
        ELSE value

\* Mutant of GenerateCSV: every row, the last one too, ends with a newline.
GenerateCSV_TrailingNewline(entries) ==
    LET headers == Fields
        rows == <<Join([h \in 1..Len(headers) |-> Chars(headers[h])], Comma)>>
                \o [i \in 1..Len(entries) |->
                       Join([h \in 1..Len(headers) |-> CsvField(entries[i], headers[h])], Comma)]
    IN  Join(rows, Newline) \o <<Newline>>

GenerateCSV(entries) ==
    LET headers == Fields
        rows == <<Join([h \in 1..Len(headers) |-> Chars(headers[h])], Comma)>>
                \o [i \in 1..Len(entries) |->
                       Join([h \in 1..Len(headers) |-> CsvField(entries[i], headers[h])], Comma)]
    IN  Join(rows, Newline)

\* ------------------------------------------------------------------ export
\* downloadBtn click
DownloadClick ==
    /\ phase = "ready"
    /\ "downloadCSV" \in dom
    /\ ops < MaxOps
    /\ Pending < MaxPending
    /\ ops' = ops + 1
    /\ reqs' = Append(reqs, GetReq("download"))
    /\ UNCHANGED <<renders, csvContent, built, closedIn,
                   phase, dom, store, formDisplay, entriesViewDisplay, formValues, now,
                   cbs, entriesList, entryCount, statusText, statusClass, timers, files,
                   declines, acks, raced, store0>>

\* !result.entries || result.entries.length === 0
NothingStored(result) == result = <<>> \/ Len(result[1]) = 0

\* Mutant of DownloadCb: the collection is downloaded without the empty check.
DownloadCb_NoCheck ==
    /\ cbs # <<>>
    /\ Head(cbs).cont = "download"
    /\ cbs' = Tail(cbs)
    /\ files' = [files EXCEPT !.download = @ + 1]
    /\ csvContent' = Some(GenerateCSV(OrEmpty(Head(cbs).value)))
    /\ UNCHANGED <<renders, built, closedIn,
                   phase, dom, store, formDisplay, entriesViewDisplay, formValues, now,
                   reqs, entriesList, entryCount, ops, declines, acks, raced, store0,
                   statusText, statusClass, timers>>

\* The callback of the download's get.
DownloadCb ==
    /\ cbs # <<>>
    /\ Head(cbs).cont = "download"
    /\ cbs' = Tail(cbs)
    /\ IF NothingStored(Head(cbs).value)
       THEN /\ ShowStatus("No entries to download!", "error")
            /\ UNCHANGED <<files, csvContent>>
       ELSE /\ csvContent' = Some(GenerateCSV(Head(cbs).value[1]))
            /\ files' = [files EXCEPT !.download = @ + 1]
            /\ UNCHANGED <<statusText, statusClass, timers>>
    /\ UNCHANGED <<renders, built, closedIn,
                   phase, dom, store, formDisplay, entriesViewDisplay, formValues, now,
                   reqs, entriesList, entryCount, ops, declines, acks, raced, store0>>

\* exportBtn click
ExportClick ==
    /\ phase = "ready"
    /\ "exportToFile" \in dom
    /\ ops < MaxOps
    /\ Pending < MaxPending
    /\ ops' = ops + 1
    /\ reqs' = Append(reqs, GetReq("export"))
    /\ UNCHANGED <<renders, csvContent, built, closedIn,
                   phase, dom, store, formDisplay, entriesViewDisplay, formValues, now,
                   cbs, entriesList, entryCount, statusText, statusClass, timers, files,
                   declines, acks, raced, store0>>

\* The callback of the export's get.
ExportCb ==
    /\ cbs # <<>>
    /\ Head(cbs).cont = "export"
    /\ cbs' = Tail(cbs)
    /\ IF NothingStored(Head(cbs).value)
       THEN /\ ShowStatus("No entries to export!", "error")
            /\ UNCHANGED <<files, csvContent>>
       ELSE /\ csvContent' = Some(GenerateCSV(Head(cbs).value[1]))
            /\ files' = [files EXCEPT !.anchor = @ + 1]
            /\ ShowStatus("Exported to sample_jobs.csv!", "success")
    /\ UNCHANGED <<renders, built, closedIn,
                   phase, dom, store, formDisplay, entriesViewDisplay, formValues, now,
                   reqs, entriesList, entryCount, ops, declines, acks, raced, store0>>

\* ------------------------------------------------------------------ clear all
\* Mutant of ClearConfirmed: the empty array is written under another key,
\* which leaves 'entries' as it is.
ClearConfirmed_WrongKey ==
    /\ phase = "ready"
    /\ "clearData" \in dom
    /\ ops < MaxOps
    /\ Pending < MaxPending
    /\ ops' = ops + 1
    /\ reqs' = Append(Mark(reqs),
                      Req("set", store, "clearSet", <<>>, 0, store, MutationInFlight))
    /\ cbs' = Mark(cbs)
    /\ UNCHANGED <<renders, csvContent, built, closedIn,
                   phase, dom, store, formDisplay, entriesViewDisplay, formValues, now,
                   entriesList, entryCount, statusText, statusClass, timers, files,
                   declines, acks, raced, store0>>

\* clearBtn click, confirm() answered yes
ClearConfirmed ==
    /\ phase = "ready"
    /\ "clearData" \in dom
    /\ ops < MaxOps
    /\ Pending < MaxPending
    /\ ops' = ops + 1
    /\ reqs' = Append(Mark(reqs),
                      Req("set", Some(<<>>), "clearSet", <<>>, 0, store, MutationInFlight))
    /\ cbs' = Mark(cbs)
    /\ UNCHANGED <<renders, csvContent, built, closedIn,
                   phase, dom, store, formDisplay, entriesViewDisplay, formValues, now,
                   entriesList, entryCount, statusText, statusClass, timers, files,
                   declines, acks, raced, store0>>

\* Mutant of ClearDeclined: the answer of confirm() is ignored.
ClearDeclined_Clears ==
    /\ phase = "ready"
    /\ "clearData" \in dom
    /\ ops < MaxOps
    /\ ops' = ops + 1
    /\ declines' = declines + 1
    /\ reqs' = Append(Mark(reqs),
                      Req("set", Some(<<>>), "clearSet", <<>>, 0, store, MutationInFlight))
    /\ cbs' = Mark(cbs)
    /\ UNCHANGED <<renders, csvContent, built, closedIn,
                   phase, dom, store, formDisplay, entriesViewDisplay, formValues, now,
                   entriesList, entryCount, statusText, statusClass, timers, files,
                   acks, raced, store0>>

\* clearBtn click, confirm() answered no
ClearDeclined ==
    /\ phase = "ready"
    /\ "clearData" \in dom
    /\ ops < MaxOps
    /\ ops' = ops + 1
    /\ declines' = declines + 1
    /\ UNCHANGED <<renders, csvContent, built, closedIn,
                   phase, dom, store, formDisplay, entriesViewDisplay, formValues, now,
                   reqs, cbs, entriesList, entryCount, statusText, statusClass, timers,
                   files, acks, raced, store0>>

\* The callback of the clear's set.
ClearSetCb ==
    /\ cbs # <<>>
    /\ Head(cbs).cont = "clearSet"
    /\ cbs' = Tail(cbs)
    /\ ShowStatus("All entries cleared!", "success")
    /\ reqs' = reqs \o LoadStoredEntries \o DisplayEntries
    /\ acks' = [acks EXCEPT !.clear = @ + 1]
    /\ UNCHANGED <<renders, csvContent, built, closedIn,
                   phase, dom, store, formDisplay, entriesViewDisplay, formValues, now,
                   entriesList, entryCount, files, ops, declines, raced, store0>>

\* ------------------------------------------------------------------ the popup's lifetime
\* The view a closing popup shows.
ViewShown ==
    IF formDisplay = "block" THEN "form"
    ELSE IF entriesViewDisplay = "block" THEN "list" ELSE "none"

\* The user closes the popup once its storage requests are answered and
\* opens it again: the document is loaded anew, the script starts over and
\* the timers of the closed popup are gone; the store stays.
Reopen ==
    /\ phase \in {"ready", "aborted"}
    /\ Quiescent
    /\ ops < MaxOps
    /\ ops' = ops + 1
    /\ closedIn' = ViewShown
    /\ phase' = "loading"
    /\ formDisplay' = ""
    /\ entriesViewDisplay' = ""
    /\ formValues' = BlankForm
    /\ entriesList' = [html |-> "initial", items |-> <<>>]
    /\ entryCount' = <<>>
    /\ statusText' = ""
    /\ statusClass' = StatusIdle
    /\ timers' = 0
    /\ acks' = [submit |-> 0, delete |-> 0, clear |-> 0]
    /\ raced' = FALSE
    /\ store0' = store
    /\ renders' = 0
    /\ UNCHANGED <<dom, store, now, reqs, cbs, files, declines, csvContent, built>>

\* ------------------------------------------------------------------ specification
Next ==
    \/ DOMContentLoaded
    \/ StorageApply
    \/ TimerFire
    \/ ViewEntriesClick
    \/ BackToFormClick
    \/ DisplayCb
    \/ \E i \in 0..MaxOps : EditClick(i)
    \/ \E i \in 0..MaxOps : DeleteConfirmed(i)
    \/ \E i \in 0..MaxOps : DeleteDeclined(i)
    \/ DeleteSetCb
    \/ CountCb
    \/ Submit
    \/ SubmitGetCb
    \/ SubmitSetCb
    \/ DownloadClick
    \/ DownloadCb
    \/ ExportClick
    \/ ExportCb
    \/ ClearConfirmed
    \/ ClearDeclined
    \/ ClearSetCb
    \/ Reopen

Spec == Init /\ [][Next]_vars

\* The popup opened on the complete document and a store whose records, or
\* one of them, an earlier version wrote without job_link.
LegacyStores == {Some(<<PartialEntry>>), Some(<<OldEntry, PartialEntry>>)}

LegacyInit ==
    /\ phase = "loading"
    /\ dom = AllIds
    /\ store \in LegacyStores
    /\ formDisplay = ""
    /\ entriesViewDisplay = ""
    /\ formValues = BlankForm
    /\ now = 0
    /\ reqs = <<>>
    /\ cbs = <<>>
    /\ entriesList = [html |-> "initial", items |-> <<>>]
    /\ entryCount = <<>>
    /\ statusText = ""
    /\ statusClass = StatusIdle
    /\ timers = 0
    /\ files = [download |-> 0, anchor |-> 0]
    /\ ops = 0
    /\ declines = 0
    /\ acks = [submit |-> 0, delete |-> 0, clear |-> 0]
    /\ raced = FALSE
    /\ store0 = store
    /\ csvContent = <<>>
    /\ built = <<>>
    /\ closedIn = "none"
    /\ renders = 0

LegacySpec == LegacyInit /\ [][Next]_vars

\* Every timer the popup started fires.
LiveSpec == Spec /\ WF_vars(TimerFire)

\* ------------------------------------------------------------------ the codec on its own
\* The texts of at most MaxFieldLen characters over the characters the
\* codec distinguishes.
CsvChars == {"a", Comma, Quote, Newline}
CsvTexts == UNION {[1..n -> CsvChars] : n \in 0..MaxFieldLen}

\* The records generateCSV is applied to: every text as employer name, a
\* record with special characters in the other columns, one without
\* job_link, and one whose name holds all the special characters.
CsvEntries ==
    {Entry([employer_name |-> x, employer_role |-> Eng, email_id |-> Mail, job_link |-> Link], 1)
        : x \in CsvTexts}
    \cup {Entry([employer_name |-> AcmeInc, employer_role |-> <<Quote, "E", Quote>>,
                 email_id |-> Mail, job_link |-> <<"l", Newline>>], 2),
          [employer_name |-> Acme, employer_role |-> Empty, email_id |-> Mail, timestamp |-> 3],
          Entry([employer_name |-> <<Quote, "a", Comma, Newline, Quote>>,
                 employer_role |-> Eng, email_id |-> Mail, job_link |-> Empty], 4)}

CsvStores == {Some(s) : s \in UNION {[1..n -> CsvEntries] : n \in 0..MaxRecords}}

CsvInit ==
    /\ phase = "loading"
    /\ dom = AllIds
    /\ store \in CsvStores
    /\ formDisplay = ""
    /\ entriesViewDisplay = ""
    /\ formValues = BlankForm
    /\ now = 0
    /\ reqs = <<>>
    /\ cbs = <<>>
    /\ entriesList = [html |-> "initial", items |-> <<>>]
    /\ entryCount = <<>>
    /\ statusText = ""
    /\ statusClass = StatusIdle
    /\ timers = 0
    /\ files = [download |-> 0, anchor |-> 0]
    /\ ops = 0
    /\ declines = 0
    /\ acks = [submit |-> 0, delete |-> 0, clear |-> 0]
    /\ raced = FALSE
    /\ store0 = store
    /\ csvContent = <<>>
    /\ built = <<>>
    /\ closedIn = "none"
    /\ renders = 0

\* generateCSV(result.entries) on the stored collection.
GenerateCsvCall ==
    /\ csvContent = <<>>
    /\ csvContent' = Some(GenerateCSV(store[1]))
    /\ UNCHANGED <<renders, phase, dom, store, formDisplay, entriesViewDisplay, formValues, now,
                   reqs, cbs, entriesList, entryCount, statusText, statusClass, timers,
                   files, ops, declines, acks, raced, store0, built, closedIn>>

CsvNext == GenerateCsvCall

CsvSpec == CsvInit /\ [][CsvNext]_vars

\* ------------------------------------------------------------------ claims
\* The answers of acknowledged-but-undelivered writes of one kind during
\* which no other mutation was in flight.
Undisturbed(cont) ==
    {k \in 1..Len(cbs) : cbs[k].cont = cont /\ ~cbs[k].interfered}

\* C1: a form submission during which no other mutation is in flight
\* persists, by the time its write is acknowledged, the collection that was
\* persisted at the submit event with the submitted record appended as the
\* last element (one longer, earlier records in place).
C1_SubmitAppends ==
    \A k \in Undisturbed("submitSet") :
        store = Some(Append(OrEmpty(cbs[k].base), cbs[k].entry[1]))

\* C1 witness: such a submission into a non-empty collection, written and
\* awaiting its acknowledgement.
C1_Witness ==
    \E k \in Undisturbed("submitSet") :
        /\ Len(OrEmpty(cbs[k].base)) >= 1
        /\ Len(OrEmpty(store)) = Len(OrEmpty(cbs[k].base)) + 1

\* C2, as claimed (here already restricted to deletes during which no other
\* mutation is in flight and whose index i exists in the persisted
\* collection): by the time a confirmed delete of row i is acknowledged, the
\* persisted collection is the collection persisted at the confirmation
\* without its element i, so one shorter.
C2_DeleteRemovesIndex ==
    \A k \in Undisturbed("deleteSet") :
        cbs[k].index < Len(OrEmpty(cbs[k].base)) =>
            /\ store = Some(FilterOut(OrEmpty(cbs[k].base), cbs[k].index))
            /\ Len(OrEmpty(store)) = Len(OrEmpty(cbs[k].base)) - 1

\* Only submissions have mutated the collection so far.
OnlySubmits ==
    /\ acks.delete = 0
    /\ acks.clear = 0
    /\ \A k \in 1..Len(reqs) : reqs[k].cont \notin {"deleteSet", "clearSet"}
    /\ \A k \in 1..Len(cbs) : cbs[k].cont \notin {"deleteSet", "clearSet"}

\* C3: submissions race.  When only submissions have mutated the collection
\* and all of them are acknowledged, records are missing from the persisted
\* collection exactly when some submit's read was answered before another
\* submit's write was applied.
C3_LostUpdate ==
    (Quiescent /\ OnlySubmits) =>
        (raced <=> Len(OrEmpty(store)) < Len(OrEmpty(store0)) + acks.submit)

\* C3 witness: two submissions, both acknowledged, both success
\* notifications shown, and one record more than before.
C3_Witness ==
    /\ Quiescent
    /\ OnlySubmits
    /\ ops = 2
    /\ acks.submit = 2
    /\ timers = 2
    /\ statusText = "Entry saved successfully!"
    /\ Len(OrEmpty(store)) = Len(OrEmpty(store0)) + 1

\* C4: after a successful initialization exactly one of the form and the
\* entries view is displayed.
C4_OneViewShown ==
    phase = "ready" =>
        \/ formDisplay = "block" /\ entriesViewDisplay = "none"
        \/ formDisplay = "none" /\ entriesViewDisplay = "block"

\* C4 witness: back on the form by the edit button of a rendered row.
C4_Witness ==
    /\ phase = "ready"
    /\ formDisplay = "block"
    /\ entriesList.html = "items"
    /\ entriesList.items[1] = OldEntry
    /\ formValues = FillForm(OldEntry)

\* C5, as claimed: a displayed message is cleared only by the timer of the
\* call that displayed it, that is when no timer of an earlier call is
\* still pending.
C5_OwnTimerClears ==
    [][(statusText # "" /\ statusText' = "") => timers = 1]_vars

\* C6: every showStatus call sets the text and the kind at once, every
\* displayed message is eventually followed by an empty status line with
\* the kind reset, and once the calls have ended the status line is
\* eventually empty for good.
C6_StatusExpires ==
    /\ [][timers' > timers =>
            /\ statusText' # ""
            /\ statusClass' \in {StatusOf("success"), StatusOf("error")}]_vars
    /\ (statusText # "") ~> (statusText = "" /\ statusClass = StatusIdle)
    /\ <>[](statusText = "" /\ statusClass = StatusIdle)

\* C6 witness: two notifications overlap, the timers of both pending.
C6_Witness ==
    /\ timers = 2
    /\ statusText # ""

\* C7: when no storage request or callback is pending after a successful
\* initialization with the count element present, the count indicator
\* reads "N entries stored" for the length N of the persisted collection.
C7_CountMatches ==
    (phase = "ready" /\ "entryCount" \in dom /\ Quiescent) =>
        entryCount = CountLabel(Len(OrEmpty(store)))

\* C7 witness: a submit into an empty store and the delete of that record
\* are acknowledged and the indicator reads "0 entries stored".
C7_Witness ==
    /\ Quiescent
    /\ store0 = <<>>
    /\ acks = [submit |-> 1, delete |-> 1, clear |-> 0]
    /\ entryCount = CountLabel(0)
    /\ store = Some(<<>>)

\* C8, as claimed: by the time a confirmed clear-all is acknowledged the
\* persisted collection is the empty sequence.
C8_ClearedAtAck ==
    (cbs # <<>> /\ Head(cbs).cont = "clearSet") => store = Some(<<>>)

\* C8, amended: by the time a confirmed clear-all during which no other
\* mutation is in flight is acknowledged, the persisted collection is the
\* empty sequence.
C8_ClearEmpties ==
    \A k \in Undisturbed("clearSet") : store = Some(<<>>)

\* C8 witness: such a clear-all of a non-empty collection, written and
\* awaiting its acknowledgement.
C8_Witness ==
    \E k \in Undisturbed("clearSet") : Len(OrEmpty(cbs[k].base)) >= 1

\* The variables a declined confirmation must leave alone: all but the
\* history of the user's clicks.
popup == <<phase, dom, store, formDisplay, entriesViewDisplay, formValues, now, reqs, cbs,
           entriesList, entryCount, statusText, statusClass, timers, files, acks, raced,
           store0, csvContent, built, closedIn, renders>>

\* C9: declining the confirmation of a delete or of a clear-all changes
\* nothing: collection, rendered list, count indicator, view, status line
\* and form stay as they are, no request is issued, no notification shown.
C9_DeclineIsNoOp ==
    [][declines' # declines =>
            UNCHANGED popup]_vars

\* C9 witness: a confirmation was declined over a non-empty collection
\* whose rows are rendered.
C9_Witness ==
    /\ declines > 0
    /\ entriesList.html = "items"
    /\ Len(OrEmpty(store)) >= 1

\* An export's read is being delivered and it returned no records.
EmptyExportDelivered ==
    /\ cbs # <<>>
    /\ Head(cbs).cont \in {"download", "export"}
    /\ Len(OrEmpty(Head(cbs).value)) = 0
    /\ cbs' = Tail(cbs)

\* C10: on both export paths a read that returns an empty or never-written
\* collection produces no file artifact and shows an error notification,
\* no success notification.
C10_EmptyExport ==
    [][EmptyExportDelivered =>
            /\ files' = files
            /\ statusClass' = StatusOf("error")
            /\ statusText' \in {"No entries to download!", "No entries to export!"}
            /\ timers' = timers + 1]_vars

\* C10 witness: the error notification of an export of a never-written
\* collection is displayed and no file was produced.
C10_Witness ==
    /\ store0 = <<>>
    /\ acks.submit = 0
    /\ statusText \in {"No entries to download!", "No entries to export!"}
    /\ files = [download |-> 0, anchor |-> 0]

\* ------------------------------------------------------------------ claims on the codec
\* Reading a CSV text back.  SplitAt cuts text at every sep; with aware, a
\* sep between an opening and a closing quote does not cut.
SplitAt(text, sep, aware) ==
    LET cuts == {k \in 1..Len(text) :
                    /\ text[k] = sep
                    /\ aware => Cardinality({j \in 1..(k - 1) : text[j] = Quote}) % 2 = 0}
        n == Cardinality(cuts)
        pos(i) == IF i = 0 THEN 0
                  ELSE IF i = n + 1 THEN Len(text) + 1
                  ELSE CHOOSE c \in cuts : Cardinality({d \in cuts : d < c}) = i - 1
    IN  [i \in 1..(n + 1) |-> SubSeq(text, pos(i - 1) + 1, pos(i) - 1)]

\* text.split(sep)
SplitText(text, sep) == SplitAt(text, sep, FALSE)

SplitOutsideQuotes(text, sep) == SplitAt(text, sep, TRUE)

\* inner is value with every quote written twice.
RECURSIVE Doubled(_, _)
Doubled(inner, value) ==
    IF value = <<>> THEN inner = <<>>
    ELSE IF Head(value) = Quote
         THEN /\ Len(inner) >= 2
              /\ inner[1] = Quote
              /\ inner[2] = Quote
              /\ Doubled(SubSeq(inner, 3, Len(inner)), Tail(value))
         ELSE /\ inner # <<>>
              /\ Head(inner) = Head(value)
              /\ Doubled(Tail(inner), Tail(value))

HeaderRow ==
    Chars("employer_name") \o <<Comma>> \o Chars("employer_role") \o <<Comma>>
    \o Chars("email_id") \o <<Comma>> \o Chars("job_link")

\* The four exported values of a record, a missing one read as empty.
Columns(e) ==
    <<ValueOf(e, "employer_name"), ValueOf(e, "employer_role"),
      ValueOf(e, "email_id"), ValueOf(e, "job_link")>>

Special(value) == \E k \in 1..Len(value) : value[k] \in {Quote, Comma, Newline}

\* The rows of the generated text and the cells of its i-th data row.
CsvRows == SplitOutsideQuotes(csvContent[1], Newline)
CsvCells(i) == SplitOutsideQuotes(CsvRows[i + 1], Comma)

\* C11 as stated: the generated text, split on newline, is the header row
\* followed by exactly one line per record; for no records it is the
\* header row alone.
C11_OneLinePerRecord ==
    csvContent # <<>> =>
        LET lines == SplitText(csvContent[1], Newline) IN
            /\ lines[1] = HeaderRow
            /\ Len(lines) = 1 + Len(store[1])
            /\ (store[1] = <<>> => csvContent[1] = HeaderRow)

\* C11: the generated text, split on the newlines outside quoted fields, is
\* the header row followed by exactly one row per record; for no records it
\* is the header row alone, without a trailing newline.
C11_OneRowPerRecord ==
    csvContent # <<>> =>
        /\ CsvRows[1] = HeaderRow
        /\ Len(CsvRows) = 1 + Len(store[1])
        /\ (store[1] = <<>> => csvContent[1] = HeaderRow)

\* Two records were encoded, one of them with a newline in a field, so the
\* text has more lines than rows.
C11_Witness ==
    /\ csvContent # <<>>
    /\ Len(store[1]) = 2
    /\ \E i \in 1..2 : \E h \in 1..4 : Includes(Columns(store[1][i])[h], Newline)
    /\ Len(SplitText(csvContent[1], Newline)) > 3
    /\ Len(CsvRows) = 3

\* C12: a cell is its value wrapped in quotes with every quote of the value
\* doubled when the value contains a quote, a comma or a newline, and the
\* value itself otherwise.
C12_QuotedIffSpecial ==
    csvContent # <<>> =>
        /\ Len(CsvRows) = 1 + Len(store[1])
        /\ \A i \in 1..Len(store[1]) :
            /\ Len(CsvCells(i)) = 4
            /\ \A h \in 1..4 :
                LET value == Columns(store[1][i])[h]
                    cell == CsvCells(i)[h]
                IN  IF Special(value)
                    THEN /\ Len(cell) >= 2
                         /\ cell[1] = Quote
                         /\ cell[Len(cell)] = Quote
                         /\ Doubled(SubSeq(cell, 2, Len(cell) - 1), value)
                    ELSE cell = value

\* The record with the name "A,I" and the role "E" in quotes was encoded:
\* the name is wrapped, the role wrapped with its quotes doubled, the mail
\* address as it is.
C12_Witness ==
    /\ csvContent # <<>>
    /\ Len(store[1]) = 1
    /\ store[1][1].employer_name = AcmeInc
    /\ store[1][1].employer_role = <<Quote, "E", Quote>>
    /\ CsvCells(1)[1] = <<Quote, "A", Comma, "I", Quote>>
    /\ CsvCells(1)[2] = <<Quote, Quote, Quote, "E", Quote, Quote, Quote>>
    /\ CsvCells(1)[3] = Mail

\* The cell read back: the wrapping quotes removed, doubled quotes single.
RECURSIVE Undouble(_)
Undouble(inner) ==
    IF inner = <<>> THEN <<>>
    ELSE IF Head(inner) = Quote
         THEN <<Quote>> \o Undouble(SubSeq(inner, 3, Len(inner)))
         ELSE <<Head(inner)>> \o Undouble(Tail(inner))

Unquote(cell) ==
    IF cell # <<>> /\ cell[1] = Quote
    THEN Undouble(SubSeq(cell, 2, Len(cell) - 1))
    ELSE cell

\* The same records, built one tick later.
Retimed(entries) ==
    [i \in 1..Len(entries) |->
        [k \in DOMAIN entries[i] |->
            IF k = "timestamp" THEN entries[i][k] + 1 ELSE entries[i][k]]]

\* C13: the i-th data row carries exactly the employer name, the role, the
\* mail address and the job link of the i-th record, in this order; the
\* timestamp is not in the text, which is the same for the records with
\* other timestamps.
C13_ColumnsInOrder ==
    csvContent # <<>> =>
        /\ Len(CsvRows) = 1 + Len(store[1])
        /\ \A i \in 1..Len(store[1]) :
            /\ Len(CsvCells(i)) = 4
            /\ [h \in 1..4 |-> Unquote(CsvCells(i)[h])] = Columns(store[1][i])
        /\ csvContent[1] = GenerateCSV(Retimed(store[1]))

\* Two records with different names and timestamps were encoded.
C13_Witness ==
    /\ csvContent # <<>>
    /\ Len(store[1]) = 2
    /\ store[1][1].timestamp # store[1][2].timestamp
    /\ store[1][1].employer_name # store[1][2].employer_name
    /\ Unquote(CsvCells(1)[1]) = store[1][1].employer_name
    /\ Unquote(CsvCells(2)[1]) = store[1][2].employer_name

\* ------------------------------------------------------------------ claims on records and views
\* C14: every record of the persisted collection is, field for field and
\* with its timestamp, the record a submit built (the t-th submit stamps
\* t), or the record an earlier session left; no operation changes it.
C14_RecordsImmutable ==
    \A k \in 1..Len(OrEmpty(store)) :
        LET r == store[1][k] IN
            IF r.timestamp = 0
            THEN r = OldEntry /\ store0 # <<>>
            ELSE r.timestamp \in 1..Len(built) /\ r = built[r.timestamp]

\* A submitted record is persisted, was rendered and was put back into the
\* form by an edit click, and nothing is in flight.
C14_Witness ==
    /\ Quiescent
    /\ renders >= 1
    /\ formDisplay = "block"
    /\ \E k \in 1..Len(OrEmpty(store)) :
        /\ store[1][k].timestamp >= 1
        /\ k <= Len(entriesList.items)
        /\ formValues = FillForm(entriesList.items[k])
        /\ entriesList.items[k] = store[1][k]

\* An undisturbed submit of the values of a record of the collection (what
\* an edit click leaves in the form) has appended: the collection is one
\* longer, the record is where it was and the new record is the last.
SubmitAfterEditAppends ==
    \A k \in Undisturbed("submitSet") :
        LET base == OrEmpty(cbs[k].base)
            entry == cbs[k].entry[1]
        IN  \A j \in 1..Len(base) :
                FillForm(base[j]) = FillForm(entry) =>
                    /\ Len(OrEmpty(store)) = Len(base) + 1
                    /\ store[1][j] = base[j]
                    /\ store[1][Len(base) + 1] = entry

\* C15: an edit click issues no request and leaves the persisted collection
\* as it is, and a submit after it, with no other mutation in flight until
\* its acknowledgement, appends a new record: the collection is one longer
\* and the edited record is unmodified at its index.
C15_EditThenSubmitAppends ==
    [][/\ (\E i \in 0..MaxOps : EditClick(i)) => UNCHANGED <<store, reqs, cbs>>
       /\ SubmitAfterEditAppends']_vars

\* The record of the earlier session was edited and submitted: two records,
\* the old one first, the new one with the same values and a later stamp.
C15_Witness ==
    \E k \in Undisturbed("submitSet") :
        /\ cbs[k].base = Some(<<OldEntry>>)
        /\ FillForm(cbs[k].entry[1]) = FillForm(OldEntry)
        /\ renders >= 1
        /\ Len(store[1]) = 2
        /\ store[1][1] = OldEntry
        /\ store[1][2].timestamp >= 1

\* C16: on a document without one of the four required elements the setup
\* aborts: no request is issued, no callback pending, the views are not
\* touched, nothing is built, rendered or displayed, and the persisted
\* collection stays what it was.
C16_AbortsWithoutRequired ==
    ~(Required \subseteq dom) =>
        /\ phase \in {"loading", "aborted"}
        /\ reqs = <<>>
        /\ cbs = <<>>
        /\ store = store0
        /\ formDisplay = ""
        /\ entriesViewDisplay = ""
        /\ formValues = BlankForm
        /\ entriesList.html = "initial"
        /\ entryCount = <<>>
        /\ statusText = ""
        /\ timers = 0
        /\ built = <<>>
        /\ renders = 0
        /\ csvContent = <<>>

\* The setup has aborted for a missing 'view entries' button, with a
\* record in the store.
C16_Witness ==
    /\ phase = "aborted"
    /\ "viewEntries" \notin dom
    /\ store = Some(<<OldEntry>>)

\* C17: the step that completes the setup of an opened popup shows the form
\* and hides the entries view.
C17_OpensInFormView ==
    [][phase = "loading" /\ phase' = "ready" =>
        formDisplay' = "block" /\ entriesViewDisplay' = "none"]_vars

\* A popup closed in the list view, with a record stored, was opened again:
\* the setup is done, only its count request is out, the form is shown.
C17_Witness ==
    /\ phase = "ready"
    /\ closedIn = "list"
    /\ store = Some(<<OldEntry>>)
    /\ Len(reqs) = 1
    /\ reqs[1].cont = "count"
    /\ cbs = <<>>
    /\ entriesList.html = "initial"
    /\ formDisplay = "block"
    /\ entriesViewDisplay = "none"

Range(q) == {q[k] : k \in 1..Len(q)}

\* The persisted collection changes only when the browser applies the
\* write of a submit, of a confirmed delete or of a confirmed clear-all.
WrittenByMutation ==
    store' # store =>
        /\ reqs # <<>>
        /\ Head(reqs).op = "set"
        /\ Head(reqs).cont \in {"submitSet", "deleteSet", "clearSet"}
        /\ store' = Head(reqs).value

\* C18 as stated: only the three mutations write, a record enters with the
\* write of a submit and leaves with the write of a delete or of a
\* clear-all.
C18_EntersBySubmitLeavesByDelete ==
    [][/\ WrittenByMutation
       /\ store' # store =>
            LET new == Range(OrEmpty(store')) \ Range(OrEmpty(store))
                gone == Range(OrEmpty(store)) \ Range(OrEmpty(store'))
            IN  /\ new # {} => Head(reqs).cont = "submitSet"
                /\ gone # {} => Head(reqs).cont \in {"deleteSet", "clearSet"}]_vars

\* C18: only the three mutations write the persisted collection, and every
\* record a write adds to it was built by a form submission (of this popup
\* or, the record of the earlier session, of one before).
C18_OnlyMutationsWrite ==
    [][/\ WrittenByMutation
       /\ Range(OrEmpty(store')) \ Range(OrEmpty(store)) \subseteq Range(built) \cup {OldEntry}]_vars

\* A submit's write was acknowledged, the list was rendered, and the record
\* the submit built is persisted.
C18_Witness ==
    /\ acks.submit >= 1
    /\ renders >= 1
    /\ built # <<>>
    /\ store # <<>>
    /\ built[1] \in Range(store[1])
    /\ Quiescent

\* C19 as stated: with nothing in flight and the entries view shown, the
\* rendered rows are the persisted records, one row each in storage order,
\* and the placeholder is shown exactly for the empty collection.
C19_ListShowsStore ==
    (phase = "ready" /\ Quiescent /\ entriesViewDisplay = "block") =>
        entriesList = IF Len(OrEmpty(store)) = 0
                      THEN [html |-> "no-entries", items |-> <<>>]
                      ELSE [html |-> "items", items |-> store[1]]

\* C20: when the callbacks of all displayEntries calls of a session without
\* a write have run, however many there were and however they overlapped,
\* the list is what one call renders: one row per stored record in storage
\* order, or the placeholder.
C20_RenderIdempotent ==
    (Quiescent /\ renders >= 1 /\ acks = [submit |-> 0, delete |-> 0, clear |-> 0]) =>
        entriesList = IF Len(OrEmpty(store)) = 0
                      THEN [html |-> "no-entries", items |-> <<>>]
                      ELSE [html |-> "items", items |-> store[1]]

\* The list of a stored record was rendered three times in a session
\* without a write.
C20_Witness ==
    /\ Quiescent
    /\ renders >= 3
    /\ acks = [submit |-> 0, delete |-> 0, clear |-> 0]
    /\ store = Some(<<OldEntry>>)
    /\ entriesList.items = <<OldEntry>>

\* ------------------------------------------------------------------ claims on edit and acknowledgement
\* C21: an edit click on a row puts the employer name, the role, the mail
\* address and the job link of the row's record into the form, the empty
\* text for a value the record does not have, and shows the form instead of
\* the entries view.
C21_EditFillsForm ==
    [][\A i \in 0..MaxOps :
        EditClick(i) =>
            LET e == entriesList.items[i + 1]
                value(id) == IF id \in DOMAIN e THEN e[id] ELSE <<>>
            IN  /\ formValues'.employer_name = value("employer_name")
                /\ formValues'.employer_role = value("employer_role")
                /\ formValues'.email_id = value("email_id")
                /\ formValues'.job_link = value("job_link")
                /\ DOMAIN formValues' = {"employer_name", "employer_role", "email_id", "job_link"}
                /\ formDisplay' = "block"
                /\ entriesViewDisplay' = "none"]_vars

\* The row of the record without job_link was edited: the form is shown
\* with its name, role and mail address and an empty job link.
C21_Witness ==
    /\ formDisplay = "block"
    /\ entriesViewDisplay = "none"
    /\ entriesList.html = "items"
    /\ \E k \in 1..Len(entriesList.items) :
        /\ entriesList.items[k] = PartialEntry
        /\ formValues.employer_name = Acme
        /\ formValues.employer_role = Eng
        /\ formValues.email_id = Mail
        /\ formValues.job_link = <<>>

\* The mutation whose success a message reports.
ReportedBy(message) ==
    CASE message = "Entry saved successfully!" -> "submitSet"
      [] message = "Entry deleted successfully!" -> "deleteSet"
      [] message = "All entries cleared!" -> "clearSet"

\* The step delivers the answer of an applied write of the kind cont.
Acknowledges(cont) ==
    /\ cbs # <<>>
    /\ Head(cbs).op = "set"
    /\ Head(cbs).cont = cont
    /\ cbs' = Tail(cbs)

\* The step issues a count refresh.
IssuesCount ==
    \E k \in (Len(reqs) + 1)..Len(reqs') : reqs'[k].cont = "count"

\* C22: a step that shows the success message of a submit, delete or
\* clear-all delivers the answer of that mutation's applied write; a filled
\* form is emptied, in an open popup, only by the step that acknowledges a
\* submit's write (or by the edit of a record of empty values, which fills
\* the form with them); a count refresh is issued only by the setup or by an
\* acknowledgement; and the acknowledgement of a submit's write shows the
\* message, empties the form and issues the refresh.
C22_SuccessAfterAck ==
    [][/\ (timers' = timers + 1 /\ statusText' \in
                {"Entry saved successfully!", "Entry deleted successfully!",
                 "All entries cleared!"})
            => Acknowledges(ReportedBy(statusText'))
       /\ (formValues # BlankForm /\ formValues' = BlankForm /\ phase' = "ready"
                /\ ~(\E i \in 0..MaxOps : EditClick(i)))
            => Acknowledges("submitSet")
       /\ IssuesCount
            => phase = "loading" \/ \E c \in {"submitSet", "deleteSet", "clearSet"} :
                                        Acknowledges(c)
       /\ Acknowledges("submitSet")
            => /\ statusText' = "Entry saved successfully!"
               /\ timers' = timers + 1
               /\ formValues' = BlankForm
               /\ "entryCount" \in dom => IssuesCount]_vars

\* A submit's write is applied and acknowledged: the record is persisted,
\* the message shown, the form empty and the count refresh on its way.
C22_Witness ==
    /\ acks.submit = 1
    /\ built # <<>>
    /\ store = Some(Append(OrEmpty(store0), built[1]))
    /\ statusText = "Entry saved successfully!"
    /\ formValues = BlankForm
    /\ cbs = <<>>
    /\ Len(reqs) = 1
    /\ reqs[1].cont = "count"

====
